---- MODULE Spec2Model ----
(***************************************************************************)
(* Model of vanity-number-lambda/app.py: generate_vanity_candidates        *)
(* (normalisation, keypad expansion, Cartesian product, substring scan,    *)
(* rendering, deduplication, sort), rank_vanity_candidates and             *)
(* lambda_handler.                                                         *)
(*                                                                         *)
(* A Python str is a sequence of one-character strings; a Python list is   *)
(* a sequence; slices s[a:b] are 0-based and half-open as in the source.   *)
(***************************************************************************)
EXTENDS Integers, Sequences, FiniteSets, TLC

-----------------------------------------------------------------------------
(* Characters                                                              *)

UpperSeq ==
    <<"A","B","C","D","E","F","G","H","I","J","K","L","M",
      "N","O","P","Q","R","S","T","U","V","W","X","Y","Z">>

LowerSeq ==
    <<"a","b","c","d","e","f","g","h","i","j","k","l","m",
      "n","o","p","q","r","s","t","u","v","w","x","y","z">>

AsciiDigitSeq ==
    <<"0","1","2","3","4","5","6","7","8","9">>

\* ARABIC-INDIC DIGIT THREE (U+0663): a character of Unicode category Nd that
\* is not an ASCII digit. The pattern \D of a str regular expression does not
\* match it, so re.sub(r'\D', '', ...) keeps it.
ArabicIndicThree == "U+0663"

Range(s) == {s[k] : k \in DOMAIN s}

UpperChars == Range(UpperSeq)
LowerChars == Range(LowerSeq)
AsciiDigits == Range(AsciiDigitSeq)
PunctChars == {" ", "(", ")", "+", ",", "-"}

AllChars ==
    UpperChars \cup LowerChars \cup AsciiDigits \cup PunctChars \cup {ArabicIndicThree}

IndexIn(seq, c) == CHOOSE k \in DOMAIN seq : seq[k] = c

\* Code point of a character (ord).
Ord ==
    [c \in AllChars |->
        IF c \in AsciiDigits THEN 47 + IndexIn(AsciiDigitSeq, c)
        ELSE IF c \in UpperChars THEN 64 + IndexIn(UpperSeq, c)
        ELSE IF c \in LowerChars THEN 96 + IndexIn(LowerSeq, c)
        ELSE IF c = " " THEN 32
        ELSE IF c = "(" THEN 40
        ELSE IF c = ")" THEN 41
        ELSE IF c = "+" THEN 43
        ELSE IF c = "," THEN 44
        ELSE IF c = "-" THEN 45
        ELSE 1635]

\* str.lower() on one character.
LowerChar ==
    [c \in AllChars |->
        IF c \in UpperChars THEN LowerSeq[IndexIn(UpperSeq, c)] ELSE c]

\* str.lower()
Lower(s) == [k \in DOMAIN s |-> LowerChar[s[k]]]

\* The characters \d matches in a str pattern (Unicode decimal digits).
IsDecimalDigit(c) == c \in AsciiDigits \cup {ArabicIndicThree}

\* Python slice s[a:b], 0 <= a, b <= len(s).
Slice(s, a, b) == SubSeq(s, a + 1, b)

-----------------------------------------------------------------------------
(* Module-level data                                                       *)

KEYPAD ==
    [d \in {"2","3","4","5","6","7","8","9"} |->
        CASE d = "2" -> <<"A","B","C">>
          [] d = "3" -> <<"D","E","F">>
          [] d = "4" -> <<"G","H","I">>
          [] d = "5" -> <<"J","K","L">>
          [] d = "6" -> <<"M","N","O">>
          [] d = "7" -> <<"P","Q","R","S">>
          [] d = "8" -> <<"T","U","V">>
          [] d = "9" -> <<"W","X","Y","Z">>]


\* logger.info / logger.warning / logger.error write to a stream handler and
\* change no program state.

-----------------------------------------------------------------------------
(* generate_vanity_candidates: the pure steps                              *)

LocalLen == 10
CountryCodeLen == 11
MinWordLen == 2

\* The formatting characters are kept.
StripNonDigits_Keep(s) == s

\* re.sub(r'\D', '', phone_number)
StripNonDigits(s) == SelectSeq(s, IsDecimalDigit)

Raised == [raised |-> TRUE, phone_number |-> <<>>]

Normalized(p) == [raised |-> FALSE, phone_number |-> p]

\* Lines 178-188: strip, validate the length, remove the country code.
NormalizeNumber(s) ==
    LET p == StripNonDigits(s) IN
    IF Len(p) \notin {LocalLen, CountryCodeLen} THEN Raised
    ELSE IF Len(p) = CountryCodeLen
         THEN IF p[1] # "1" THEN Raised ELSE Normalized(Slice(p, 1, Len(p)))
         ELSE Normalized(p)

\* A keypad on which 0 and 1 carry letters too.
DigitLetters_ZeroOne(digit) ==
    IF digit \in DOMAIN KEYPAD THEN KEYPAD[digit]
    ELSE IF digit = "0" THEN <<"O">>
    ELSE IF digit = "1" THEN <<"I">>
    ELSE <<digit>>

\* Lines 195-198: the substitution list of one digit.
DigitLetters(digit) ==
    IF digit \in DOMAIN KEYPAD THEN KEYPAD[digit] ELSE <<digit>>

\* Lines 193-198
ExpandDigits(p) == [k \in DOMAIN p |-> DigitLetters(p[k])]

RECURSIVE CartesianProduct_DropLast(_)
\* A product that loses the last letter of every key.
CartesianProduct_DropLast(lists) ==
    IF Len(lists) = 0 THEN << <<>> >>
    ELSE LET rest == CartesianProduct_DropLast(Tail(lists))
             h == Head(lists)
             m == IF Len(h) > 1 THEN Len(h) - 1 ELSE Len(h)
             n == Len(rest)
         IN  [k \in 1..(m * n) |->
                 << h[((k - 1) \div n) + 1] >> \o rest[((k - 1) % n) + 1]]

RECURSIVE CartesianProduct(_)
\* list(itertools.product(*lists)): every tuple, the rightmost position
\* varying fastest.
CartesianProduct(lists) ==
    IF Len(lists) = 0 THEN << <<>> >>
    ELSE LET rest == CartesianProduct(Tail(lists))
             h == Head(lists)
             n == Len(rest)
         IN  [k \in 1..(Len(h) * n) |->
                 << h[((k - 1) \div n) + 1] >> \o rest[((k - 1) % n) + 1]]

RECURSIVE WindowsFrom(_, _, _)
\* The pairs (i, j) of "for i in range(n): for j in range(i + 2, n + 1)",
\* in loop order, from (i, j) on.
WindowsFrom(i, j, n) ==
    IF i >= n THEN <<>>
    ELSE IF j > n THEN WindowsFrom(i + 1, i + 1 + MinWordLen, n)
    ELSE << <<i, j>> >> \o WindowsFrom(i, j + 1, n)

\* The loop pairs for every length a normalised number can have.
WindowTable == [n \in 0..LocalLen |-> WindowsFrom(0, MinWordLen, n)]

Windows(n) == WindowTable[n]

\* "".join(s[i:j])
WordCandidate(s, i, j) == Slice(s, i, j)

\* word_candidate.lower() in WORD_LIST
IsWord(w, words) == Lower(w) \in words

\* Rendering that keeps the combination's letters outside the window.
PhoneCandidate_Substituted(p, s, i, j) ==
    Slice(s, 0, i) \o <<"-">> \o WordCandidate(s, i, j) \o <<"-">> \o Slice(s, j, Len(s))

\* f"{phone_number[:i]}-{word_candidate}-{phone_number[j:]}"
PhoneCandidate(p, s, i, j) ==
    Slice(p, 0, i) \o <<"-">> \o WordCandidate(s, i, j) \o <<"-">> \o Slice(p, j, Len(p))

\* The inner two loops (lines 209-217) for one combination s.
ScanCombination(s, p, words) ==
    LET Hit(x) == IsWord(WordCandidate(s, x[1], x[2]), words)
        hits == SelectSeq(Windows(Len(s)), Hit)
    IN  [k \in DOMAIN hits |-> PhoneCandidate(p, s, hits[k][1], hits[k][2])]

RECURSIVE ScanFrom(_, _, _, _)
\* The outer loop (line 208) from the k-th combination on.
ScanFrom(k, combos, p, words) ==
    IF k > Len(combos) THEN <<>>
    ELSE ScanCombination(combos[k], p, words) \o ScanFrom(k + 1, combos, p, words)

ScanAll(combos, p, words) == ScanFrom(1, combos, p, words)

RECURSIVE StrLess(_, _)
\* Python's str "<": code point by code point, a proper prefix first.
StrLess(a, b) ==
    IF Len(b) = 0 THEN FALSE
    ELSE IF Len(a) = 0 THEN TRUE
    ELSE IF Ord[Head(a)] # Ord[Head(b)] THEN Ord[Head(a)] < Ord[Head(b)]
    ELSE StrLess(Tail(a), Tail(b))

RECURSIVE SetToList(_)
\* list(a_set): the elements once each, in an order the program does not
\* control (the sort that follows makes the order irrelevant).
SetToList(S) ==
    IF S = {} THEN <<>>
    ELSE LET x == CHOOSE y \in S : TRUE IN <<x>> \o SetToList(S \ {x})

\* Sorting without the set(): duplicates survive.
UniqueList_Keep(list) == list

\* list(set(candidates))
UniqueList(list) == SetToList(Range(list))

RECURSIVE InsertSorted(_, _)
InsertSorted(x, sorted) ==
    IF Len(sorted) = 0 THEN <<x>>
    ELSE IF StrLess(Head(sorted), x)
         THEN <<Head(sorted)>> \o InsertSorted(x, Tail(sorted))
         ELSE <<x>> \o sorted

RECURSIVE SortList(_)
\* list.sort() on a list of str
SortList(list) ==
    IF Len(list) = 0 THEN <<>>
    ELSE InsertSorted(Head(list), SortList(Tail(list)))

\* Lines 220-221
DedupAndSort(list) == SortList(UniqueList(list))

-----------------------------------------------------------------------------
(* Inputs                                                                  *)

\* Length of the run of freely chosen digits in a generated phone number.
ZoneLen == 3

\* '0' and '1' have no letters; '3' is DEF and '4' is GHI.
ZoneChars == {"0", "1", "3", "4"}

\* Where the run starts (0-based): at the very front, at the very end.
ZoneStarts == {0, LocalLen - ZoneLen}

\* A ten-digit number: zeros around the run z placed at start.
Body(start, z) ==
    [k \in 1..LocalLen |->
        IF start < k /\ k <= start + ZoneLen THEN z[k - start] ELSE "0"]

Bodies == {Body(start, z) : start \in ZoneStarts, z \in [1..ZoneLen -> ZoneChars]}

\* The numbers that are also given with a country code, with formatting or
\* with a digit too many or too few.
FrontBodies == {Body(0, z) : z \in [1..ZoneLen -> {"1", "4"}]}

\* "(d1d2d3) d4d5d6-d7d8d9d10"
Formatted(b) ==
    <<"(">> \o Slice(b, 0, 3) \o <<")", " ">> \o Slice(b, 3, 6) \o <<"-">> \o Slice(b, 6, Len(b))

\* Arguments of generate_vanity_candidates: plain ten-digit numbers, E.164
\* numbers with the country code, formatted numbers, and numbers with a
\* wrong digit count or a wrong leading digit.
PhoneNumbers ==
    Bodies
    \cup {<<"+", "1">> \o b : b \in FrontBodies}
    \cup {Formatted(b) : b \in FrontBodies}
    \cup {<<"4">> \o b : b \in FrontBodies}
    \cup {<<"1", "1">> \o b : b \in FrontBodies}
    \cup {Slice(b, 0, LocalLen - 1) : b \in FrontBodies}
    \cup {Slice(b, 0, LocalLen - 1) \o <<ArabicIndicThree>> : b \in FrontBodies}
    \cup {<<ArabicIndicThree>> \o b : b \in FrontBodies}
    \cup {<<>>, <<"5","5","5","-","1","2","3","4">>}

\* Entries the dictionary may hold, lower-cased as line 27 leaves them: two
\* words, a one-letter word, and an entry that is not alphabetic.
WordUniverse == {<<"h","i">>, <<"h","i","d">>, <<"i">>, <<"i","0">>}

WordLists == SUBSET WordUniverse

-----------------------------------------------------------------------------
(* State                                                                   *)

VARIABLES
    mode,                \* "direct": generate_vanity_candidates is the entry point;
                         \* "handler": lambda_handler is
    WORD_LIST,           \* the module-level word set
    pc,                  \* position in the running function
    arg,                 \* the argument generate_vanity_candidates was called with
    phone_number,        \* its local phone_number
    digit_letters,
    digit_combinations,
    candidates,
    genOutcome,          \* "none", "raised" (ValueError) or "returned"
    event,               \* lambda_handler's event
    customer_phone_number,
    response,            \* what structured_llm.invoke did
    rankOutcome,         \* what rank_vanity_candidates did
    ranked_candidates,
    ranked_candidates_tts,
    storeOutcome,        \* "none", "stored" or "raised"
    table,               \* the items put into the DynamoDB table
    ret,                 \* lambda_handler's return value
    calls                \* how often each stage was entered

genVars ==
    <<arg, phone_number, digit_letters, digit_combinations, candidates, genOutcome>>

handlerVars ==
    <<event, customer_phone_number, response, rankOutcome, ranked_candidates,
      ranked_candidates_tts, storeOutcome, table, ret>>

vars == <<mode, WORD_LIST, pc, genVars, handlerVars, calls>>

NoEvent == [hasAddress |-> FALSE, Address |-> <<>>]

NoResponse ==
    [kind |-> "notcalled", hasNumbers |-> FALSE, numbers |-> <<>>,
     hasTts |-> FALSE, numbers_tts |-> <<>>]

NoRank == [kind |-> "notcalled", isPair |-> FALSE, numbers |-> <<>>, numbers_tts |-> <<>>]

NoReturn == [returned |-> FALSE, vanityNumberSuccess |-> FALSE,
             vanityNumbersType |-> "none", vanityNumbers |-> <<>>]

NoCalls == [validate |-> 0, product |-> 0, oracle |-> 0, store |-> 0]

GenLocalsInit ==
    /\ phone_number = <<>>
    /\ digit_letters = <<>>
    /\ digit_combinations = <<>>
    /\ candidates = <<>>
    /\ genOutcome = "none"

HandlerLocalsInit ==
    /\ customer_phone_number = <<>>
    /\ response = NoResponse
    /\ rankOutcome = NoRank
    /\ ranked_candidates = <<>>
    /\ ranked_candidates_tts = <<>>
    /\ storeOutcome = "none"
    /\ table = {}
    /\ ret = NoReturn
    /\ calls = NoCalls

\* generate_vanity_candidates(arg) has just been called.
Init ==
    /\ mode = "direct"
    /\ WORD_LIST \in WordLists
    /\ arg \in PhoneNumbers
    /\ pc = "normalize"
    /\ event = NoEvent
    /\ GenLocalsInit
    /\ HandlerLocalsInit

-----------------------------------------------------------------------------
(* generate_vanity_candidates                                              *)

\* Where a ValueError of generate_vanity_candidates lands: in the caller of
\* the function, or in lambda_handler's except clause (line 127).
AfterRaise == IF mode = "handler" THEN "except" ELSE "raised"

\* Where the return of generate_vanity_candidates lands (line 100).
AfterReturn == IF mode = "handler" THEN "candidates" ELSE "returned"

\* Lines 178-190
Normalize ==
    /\ pc = "normalize"
    /\ LET r == NormalizeNumber(arg) IN
       /\ phone_number' = r.phone_number
       /\ genOutcome' = IF r.raised THEN "raised" ELSE "none"
       /\ pc' = IF r.raised THEN AfterRaise ELSE "expand"
    /\ calls' = [calls EXCEPT !.validate = @ + 1]
    /\ UNCHANGED <<mode, WORD_LIST, arg, digit_letters, digit_combinations,
                   candidates, handlerVars>>

\* Lines 193-200
Expand ==
    /\ pc = "expand"
    /\ digit_letters' = ExpandDigits(phone_number)
    /\ pc' = "product"
    /\ UNCHANGED <<mode, WORD_LIST, arg, phone_number, digit_combinations,
                   candidates, genOutcome, handlerVars, calls>>

\* Lines 203-204
Product ==
    /\ pc = "product"
    /\ digit_combinations' = CartesianProduct(digit_letters)
    /\ calls' = [calls EXCEPT !.product = @ + 1]
    /\ pc' = "scan"
    /\ UNCHANGED <<mode, WORD_LIST, arg, phone_number, digit_letters,
                   candidates, genOutcome, handlerVars>>

\* Lines 206-217
Scan ==
    /\ pc = "scan"
    /\ candidates' = ScanAll(digit_combinations, phone_number, WORD_LIST)
    /\ pc' = "sort"
    /\ UNCHANGED <<mode, WORD_LIST, arg, phone_number, digit_letters,
                   digit_combinations, genOutcome, handlerVars, calls>>

\* Lines 220-225
SortAndReturn ==
    /\ pc = "sort"
    /\ candidates' = DedupAndSort(candidates)
    /\ genOutcome' = "returned"
    /\ pc' = AfterReturn
    /\ UNCHANGED <<mode, WORD_LIST, arg, phone_number, digit_letters,
                   digit_combinations, handlerVars, calls>>

Next ==
    \/ Normalize
    \/ Expand
    \/ Product
    \/ Scan
    \/ SortAndReturn

Spec == Init /\ [][Next]_vars

-----------------------------------------------------------------------------
(* rank_vanity_candidates                                                  *)

TopCount == 5

\* Most strings the ranking model answers with, in either list.
MaxOracle == 6

\* The k-th string of an answer: a tag and a digit.
OracleItem(tag, k) == <<tag, AsciiDigitSeq[k + 1]>>

OracleList(tag, n) == [k \in 1..n |-> OracleItem(tag, k)]

OracleAnswer(kind, hasNumbers, n, hasTts, m) ==
    [kind |-> kind,
     hasNumbers |-> hasNumbers, numbers |-> OracleList("N", n),
     hasTts |-> hasTts, numbers_tts |-> OracleList("t", m)]

\* What structured_llm.invoke can do: raise, return None, return a dict
\* without 'numbers', or a dict with 'numbers' and with or without
\* 'numbers_tts', the two lists of any lengths.
OracleResponses ==
    {OracleAnswer("raise", FALSE, 0, FALSE, 0), OracleAnswer("none", FALSE, 0, FALSE, 0)}
    \cup {OracleAnswer("dict", FALSE, 0, FALSE, 0), OracleAnswer("dict", FALSE, 0, TRUE, 1)}
    \cup {OracleAnswer("dict", TRUE, n, FALSE, 0) : n \in 0..MaxOracle}
    \cup {OracleAnswer("dict", TRUE, x[1], TRUE, x[2]) : x \in (0..MaxOracle) \X (0..MaxOracle)}

\* list[:n]
Take(list, n) == SubSeq(list, 1, IF Len(list) < n THEN Len(list) ELSE n)

\* The renderings are taken as the model gave them.
TtsOrFallback_AsGiven(resp) == resp.numbers_tts

\* Lines 169-171: the numbers stand in for missing or mismatched renderings.
TtsOrFallback(resp) ==
    IF ~resp.hasTts \/ Len(resp.numbers_tts) # Len(resp.numbers)
    THEN resp.numbers
    ELSE resp.numbers_tts

\* Lines 164-173. kind "raised": the exception of invoke leaves the
\* function; isPair FALSE: line 167 returned the bare list [].
RankVanityCandidates(resp) ==
    IF resp.kind = "raise"
    THEN [kind |-> "raised", isPair |-> FALSE, numbers |-> <<>>, numbers_tts |-> <<>>]
    ELSE IF resp.kind = "none" \/ ~resp.hasNumbers \/ Len(resp.numbers) = 0
    THEN [kind |-> "returned", isPair |-> FALSE, numbers |-> <<>>, numbers_tts |-> <<>>]
    ELSE [kind |-> "returned", isPair |-> TRUE,
          numbers |-> Take(resp.numbers, TopCount),
          numbers_tts |-> Take(TtsOrFallback(resp), TopCount)]

-----------------------------------------------------------------------------
(* lambda_handler                                                          *)

RECURSIVE Join(_, _)
\* sep.join(list)
Join(sep, list) ==
    IF Len(list) = 0 THEN <<>>
    ELSE IF Len(list) = 1 THEN list[1]
    ELSE list[1] \o sep \o Join(sep, Tail(list))

\* Lines 92-95: 'vanityNumbers' is the empty list.
MissingNumberReturn ==
    [returned |-> TRUE, vanityNumberSuccess |-> FALSE,
     vanityNumbersType |-> "list", vanityNumbers |-> <<>>]

\* Lines 104-107 with the empty list of lines 92-95.
NoCandidatesReturn_List ==
    [returned |-> TRUE, vanityNumberSuccess |-> FALSE,
     vanityNumbersType |-> "list", vanityNumbers |-> <<>>]

\* Lines 104-107: 'vanityNumbers' is the empty string.
NoCandidatesReturn ==
    [returned |-> TRUE, vanityNumberSuccess |-> FALSE,
     vanityNumbersType |-> "str", vanityNumbers |-> <<>>]

\* Lines 129-132
ExceptReturn ==
    [returned |-> TRUE, vanityNumberSuccess |-> FALSE,
     vanityNumbersType |-> "str", vanityNumbers |-> <<>>]

\* Lines 122-125
SuccessReturn(tts) ==
    [returned |-> TRUE, vanityNumberSuccess |-> TRUE,
     vanityNumbersType |-> "str",
     vanityNumbers |-> IF Len(tts) # 0 THEN Join(<<",", " ">>, tts) ELSE <<>>]

\* The guard against an empty candidate list is missing.
HasCandidates_Always(list) == TRUE

\* Line 102: "if not candidates" is false.
HasCandidates(list) == Len(list) # 0

\* The exception of the write reaches the outer except clause.
AfterStore_Propagate(stored) == IF stored THEN "return" ELSE "except"

\* Lines 115-120: the exception of the write is logged and execution goes on.
AfterStore(stored) == "return"

\* The Address values of the events: none or empty, E.164 and formatted
\* numbers, numbers with a wrong digit count or a wrong leading digit.
EventAddresses ==
    {<<"+", "1">> \o b : b \in FrontBodies}
    \cup {Formatted(b) : b \in FrontBodies}
    \cup {<<"4">> \o b : b \in FrontBodies}
    \cup {<<>>, <<"5","5","5","-","1","2","3","4">>}

Events ==
    {NoEvent} \cup {[hasAddress |-> TRUE, Address |-> a] : a \in EventAddresses}

\* lambda_handler(event, context) has just been called.
HandlerInit ==
    /\ mode = "handler"
    /\ WORD_LIST \in WordLists
    /\ event \in Events
    /\ pc = "handler"
    /\ arg = <<>>
    /\ GenLocalsInit
    /\ HandlerLocalsInit

\* Lines 82-100: read the number; without one return at once, with one call
\* generate_vanity_candidates.
ParseEvent ==
    /\ pc = "handler"
    /\ customer_phone_number' = (IF event.hasAddress THEN event.Address ELSE <<>>)
    /\ IF Len(customer_phone_number') = 0
       THEN /\ ret' = MissingNumberReturn
            /\ pc' = "done"
            /\ arg' = arg
       ELSE /\ ret' = ret
            /\ pc' = "normalize"
            /\ arg' = customer_phone_number'
    /\ UNCHANGED <<mode, WORD_LIST, phone_number, digit_letters, digit_combinations,
                   candidates, genOutcome, event, response, rankOutcome,
                   ranked_candidates, ranked_candidates_tts, storeOutcome, table, calls>>

\* Lines 100-107
HandleCandidates ==
    /\ pc = "candidates"
    /\ IF HasCandidates(candidates)
       THEN pc' = "rank" /\ ret' = ret
       ELSE pc' = "done" /\ ret' = NoCandidatesReturn
    /\ UNCHANGED <<mode, WORD_LIST, genVars, event, customer_phone_number, response,
                   rankOutcome, ranked_candidates, ranked_candidates_tts,
                   storeOutcome, table, calls>>

\* Lines 110-112 and 134-173: the call, and the unpacking of its result
\* into two names, which raises ValueError on the bare list [].
Rank ==
    /\ pc = "rank"
    /\ \E resp \in OracleResponses :
          /\ response' = resp
          /\ rankOutcome' = RankVanityCandidates(resp)
    /\ calls' = [calls EXCEPT !.oracle = @ + 1]
    /\ IF rankOutcome'.kind = "returned" /\ rankOutcome'.isPair
       THEN /\ ranked_candidates' = rankOutcome'.numbers
            /\ ranked_candidates_tts' = rankOutcome'.numbers_tts
            /\ pc' = "store"
       ELSE /\ UNCHANGED <<ranked_candidates, ranked_candidates_tts>>
            /\ pc' = "except"
    /\ UNCHANGED <<mode, WORD_LIST, genVars, event, customer_phone_number,
                   storeOutcome, table, ret>>

\* The item of lines 238-243; the timestamp, read from the clock, is left out.
Item ==
    [phoneNumber |-> customer_phone_number,
     vanityNumbers |-> ranked_candidates,
     vanityNumbersTTS |-> ranked_candidates_tts]

\* Lines 115-120 and 236-251: put_item succeeds or raises.
Store ==
    /\ pc = "store"
    /\ \E stored \in BOOLEAN :
          /\ storeOutcome' = (IF stored THEN "stored" ELSE "raised")
          /\ table' = (IF stored
                       THEN {it \in table : it.phoneNumber # customer_phone_number}
                            \cup {Item}
                       ELSE table)
          /\ pc' = AfterStore(stored)
    /\ calls' = [calls EXCEPT !.store = @ + 1]
    /\ UNCHANGED <<mode, WORD_LIST, genVars, event, customer_phone_number, response,
                   rankOutcome, ranked_candidates, ranked_candidates_tts, ret>>

\* Lines 122-125
ReturnSuccess ==
    /\ pc = "return"
    /\ ret' = SuccessReturn(ranked_candidates_tts)
    /\ pc' = "done"
    /\ UNCHANGED <<mode, WORD_LIST, genVars, event, customer_phone_number, response,
                   rankOutcome, ranked_candidates, ranked_candidates_tts,
                   storeOutcome, table, calls>>

\* Lines 127-132
Except ==
    /\ pc = "except"
    /\ ret' = ExceptReturn
    /\ pc' = "done"
    /\ UNCHANGED <<mode, WORD_LIST, genVars, event, customer_phone_number, response,
                   rankOutcome, ranked_candidates, ranked_candidates_tts,
                   storeOutcome, table, calls>>

HandlerNext ==
    \/ ParseEvent
    \/ Normalize
    \/ Expand
    \/ Product
    \/ Scan
    \/ SortAndReturn
    \/ HandleCandidates
    \/ Rank
    \/ Store
    \/ ReturnSuccess
    \/ Except

HandlerSpec == HandlerInit /\ [][HandlerNext]_vars

-----------------------------------------------------------------------------
(* Properties of generate_vanity_candidates                                *)

RECURSIVE DigitsOf(_)
\* The decimal digits of s, in order.
DigitsOf(s) ==
    IF Len(s) = 0 THEN <<>>
    ELSE (IF IsDecimalDigit(Head(s)) THEN <<Head(s)>> ELSE <<>>) \o DigitsOf(Tail(s))

Validated == calls.validate > 0

SubstitutionSet(digit) ==
    IF digit \in DOMAIN KEYPAD THEN Range(KEYPAD[digit]) ELSE {digit}

\* The strings w over the window [i, j) of d, character k drawn from the
\* substitution set of d[i + k], that lower-case to the word u.
WindowSpellings(d, i, j, u) ==
    IF Len(u) # j - i THEN {}
    ELSE LET Choices(k) == {c \in SubstitutionSet(d[i + k]) : LowerChar[c] = u[k]}
             pool == UNION {Choices(k) : k \in 1..(j - i)}
         IN  {w \in [1..(j - i) -> pool] : \A k \in 1..(j - i) : w[k] \in Choices(k)}

WindowOk(i, j, n) == 0 <= i /\ i + MinWordLen <= j /\ j <= n

\* Every rendering the claim asks for.
ExpectedCandidates(d, words) ==
    UNION { UNION { { Slice(d, 0, x[1]) \o <<"-">> \o w \o <<"-">> \o Slice(d, x[2], Len(d))
                        : w \in WindowSpellings(d, x[1], x[2], u) }
                    : u \in words }
            : x \in {y \in (0..Len(d)) \X (0..Len(d)) : WindowOk(y[1], y[2], Len(d))} }

\* C2: the returned list holds exactly the renderings d[0:i]-w-d[j:] of the
\* windows i + 2 <= j <= 10 and the spellings w of dictionary words over
\* them, the digits outside the window being the original ones.
C2_ExactCandidates ==
    genOutcome = "returned" =>
        Range(candidates) = ExpectedCandidates(phone_number, WORD_LIST)

\* Two or more candidates came back, one of them with a digit that has
\* letters ('3' or '4') left standing outside its window.
C2_Witness ==
    /\ genOutcome = "returned"
    /\ Len(candidates) >= 2
    /\ \E k \in DOMAIN candidates : "3" \in Range(candidates[k]) \/ "4" \in Range(candidates[k])

\* Index (1-based) of the first '-' of c at or after position from.
HyphenFrom(c, from) ==
    CHOOSE k \in from..Len(c) : c[k] = "-" /\ \A m \in from..(k - 1) : c[m] # "-"

\* The window [i, j) of a candidate prefix-WORD-suffix, as 0-based positions
\* of the digit sequence.
WindowStart(c) == HyphenFrom(c, 1) - 1

WindowEnd(c) == HyphenFrom(c, HyphenFrom(c, 1) + 1) - 2

LowercaseAlphabetic(words) == \A u \in words : Range(u) \subseteq LowerChars

\* C3: with a dictionary of lowercase alphabetic words, the window of every
\* returned candidate covers only positions that hold '2'..'9': none that
\* holds '0' or '1'.
C3_HardSeparator ==
    (genOutcome = "returned" /\ LowercaseAlphabetic(WORD_LIST)) =>
        \A n \in DOMAIN candidates :
            \A q \in WindowStart(candidates[n])..(WindowEnd(candidates[n]) - 1) :
                /\ phone_number[q + 1] \notin {"0", "1"}
                /\ phone_number[q + 1] \in DOMAIN KEYPAD

\* A word was found in a number whose run of digits holds a '1' next to a
\* digit with letters.
C3_Witness ==
    /\ genOutcome = "returned"
    /\ LowercaseAlphabetic(WORD_LIST)
    /\ candidates # <<>>
    /\ \E k \in 1..(Len(phone_number) - 1) :
          \/ phone_number[k] = "1" /\ phone_number[k + 1] \in DOMAIN KEYPAD
          \/ phone_number[k + 1] = "1" /\ phone_number[k] \in DOMAIN KEYPAD

\* a < b in code point order: at the first position where they differ a has
\* the smaller code point, or a is a proper prefix of b.
CodepointLess(a, b) ==
    \E m \in 1..(Len(a) + 1) :
        /\ m <= Len(b) + 1
        /\ \A k \in 1..(m - 1) : a[k] = b[k]
        /\ \/ m = Len(a) + 1 /\ m <= Len(b)
           \/ m <= Len(a) /\ m <= Len(b) /\ Ord[a[m]] < Ord[b[m]]

\* C4: the returned list has no two equal strings and each element is
\* strictly below the next in code point order; '-' is below the digits and
\* the digits are below the upper-case letters.
C4_SortedNoDuplicates ==
    /\ Ord["-"] < Ord["0"] /\ Ord["9"] < Ord["A"]
    /\ genOutcome = "returned" =>
          /\ \A k \in 1..(Len(candidates) - 1) :
                CodepointLess(candidates[k], candidates[k + 1])
          /\ \A k, m \in DOMAIN candidates : k # m => candidates[k] # candidates[m]

\* Several candidates came back and the scan had appended more strings than
\* that: different combinations rendered to the same candidate.
C4_Witness ==
    /\ genOutcome = "returned"
    /\ Len(candidates) >= 2
    /\ Len(ScanAll(digit_combinations, phone_number, WORD_LIST)) > Len(candidates)

RECURSIVE ProductOfSizes(_)
\* The product of the sizes of the substitution sets of the digits of d.
ProductOfSizes(d) ==
    IF Len(d) = 0 THEN 1
    ELSE Cardinality(SubstitutionSet(Head(d))) * ProductOfSizes(Tail(d))

Enumerated == calls.product > 0

\* C8 as stated: the enumerator streams, so more than one Combination is
\* never held at once.
C8_Streams == Len(digit_combinations) <= 1

\* C8 as amended: from the moment the product has been computed, before the
\* first combination is scanned, until the function returns, the list
\* digit_combinations holds the whole Cartesian product: as many
\* combinations as the product of the sizes of the substitution sets, all
\* different, each drawing position k from the set of digit k.
C8_Materialized ==
    Enumerated =>
        /\ Len(digit_combinations) = ProductOfSizes(phone_number)
        /\ Cardinality(Range(digit_combinations)) = Len(digit_combinations)
        /\ \A n \in DOMAIN digit_combinations :
              /\ Len(digit_combinations[n]) = Len(phone_number)
              /\ \A k \in DOMAIN phone_number :
                    digit_combinations[n][k] \in SubstitutionSet(phone_number[k])

\* The scan is about to start on a product of more than one combination.
C8_Witness ==
    /\ pc = "scan"
    /\ candidates = <<>>
    /\ Len(digit_combinations) > 1

-----------------------------------------------------------------------------
(* Properties of lambda_handler and rank_vanity_candidates                 *)

\* The four outcomes the claims tell apart, read off a finished request.
EmptyResult == ret.returned /\ genOutcome = "returned" /\ Len(candidates) = 0

InvalidFormat == ret.returned /\ genOutcome = "raised"

\* The answer of the ranking model is an exception, None, without a
\* non-empty 'numbers', or without a 'numbers_tts' of the same length.
Malformed(resp) ==
    \/ resp.kind \in {"raise", "none"}
    \/ ~resp.hasNumbers
    \/ Len(resp.numbers) = 0
    \/ ~resp.hasTts
    \/ Len(resp.numbers_tts) # Len(resp.numbers)

\* Nothing selected: the exception, None, or no non-empty 'numbers'.
NoSelection(resp) ==
    \/ resp.kind \in {"raise", "none"}
    \/ ~resp.hasNumbers
    \/ Len(resp.numbers) = 0

OracleFailed == ret.returned /\ calls.oracle > 0 /\ NoSelection(response)

StorageFailed == ret.returned /\ storeOutcome = "raised"

\* The value with vanityNumberSuccess false and vanityNumbers ''.
FailureValue ==
    [returned |-> TRUE, vanityNumberSuccess |-> FALSE,
     vanityNumbersType |-> "str", vanityNumbers |-> <<>>]

\* C5 as stated: the value returned for a valid input without matches is
\* not the value returned for an InvalidFormat input (which is FailureValue,
\* see C5_Outcomes), nor that of an oracle or storage failure.
C5_Distinguishable == EmptyResult => ret # FailureValue

\* C5 as amended: a valid input without matches, an InvalidFormat input and
\* a failed or empty oracle answer all return the same value,
\* vanityNumberSuccess false with vanityNumbers ''; only the value returned
\* after a storage failure differs from it: vanityNumberSuccess is true.
C5_Outcomes ==
    /\ EmptyResult => ret = FailureValue
    /\ InvalidFormat => ret = FailureValue
    /\ OracleFailed => ret = FailureValue
    /\ StorageFailed => ret.vanityNumberSuccess /\ ret # FailureValue

\* A request for a valid number without matches has returned.
C5_Witness ==
    /\ EmptyResult
    /\ Len(phone_number) = LocalLen
    /\ pc = "done"

\* C6: when the oracle fails or answers malformed, rank_vanity_candidates
\* still returns a pair (candidates, renderings) and raises nothing, and
\* lambda_handler does not end in its except clause.
C6_OracleRecovered ==
    (calls.oracle > 0 /\ Malformed(response)) =>
        /\ rankOutcome.kind = "returned"
        /\ rankOutcome.isPair
        /\ Len(rankOutcome.numbers_tts) = Len(rankOutcome.numbers)
        /\ pc # "except"

\* sep.join(list) written position by position: the characters of the
\* strings with sep between neighbours.
RECURSIVE Joined(_, _, _)
Joined(sep, list, k) ==
    IF k > Len(list) THEN <<>>
    ELSE (IF k > 1 THEN sep ELSE <<>>) \o list[k] \o Joined(sep, list, k + 1)

\* C7: once the write has been attempted, succeeded or not, the handler
\* returns vanityNumberSuccess true with the renderings joined by ", ".
C7_StorageFailureSwallowed ==
    (ret.returned /\ storeOutcome # "none") =>
        /\ ret.vanityNumberSuccess
        /\ ret.vanityNumbersType = "str"
        /\ ret.vanityNumbers = Joined(<<",", " ">>, ranked_candidates_tts, 1)
        /\ pc = "done"

\* The write raised and the handler returned several joined renderings.
C7_Witness ==
    /\ ret.returned
    /\ storeOutcome = "raised"
    /\ table = {}
    /\ Len(ranked_candidates_tts) >= 2
    /\ Len(ret.vanityNumbers) > 0

\* C9: a selection returned by rank_vanity_candidates has at most 5 strings
\* and as many renderings; with renderings missing or of another count
\* than the strings of the answer the strings are their own renderings;
\* otherwise string i and rendering i are string i and rendering i of the
\* answer.
C9_SelectionShape ==
    (rankOutcome.kind = "returned" /\ rankOutcome.isPair) =>
        /\ Len(candidates) > 0
        /\ Len(rankOutcome.numbers) <= TopCount
        /\ Len(rankOutcome.numbers) > 0
        /\ Len(rankOutcome.numbers_tts) = Len(rankOutcome.numbers)
        /\ \A i \in DOMAIN rankOutcome.numbers :
              rankOutcome.numbers[i] = response.numbers[i]
        /\ IF ~response.hasTts \/ Len(response.numbers_tts) # Len(response.numbers)
           THEN rankOutcome.numbers_tts = rankOutcome.numbers
           ELSE \A i \in DOMAIN rankOutcome.numbers_tts :
                   rankOutcome.numbers_tts[i] = response.numbers_tts[i]

\* More than five strings were answered, with fewer renderings, and five
\* strings came back as their own renderings.
C9_Witness ==
    /\ rankOutcome.kind = "returned"
    /\ rankOutcome.isPair
    /\ Len(response.numbers) > TopCount
    /\ response.hasTts
    /\ Len(response.numbers_tts) < Len(response.numbers)
    /\ Len(response.numbers_tts) > 0
    /\ Len(rankOutcome.numbers) = TopCount

\* C10: every stage is entered at most once and only behind the one before
\* it: the product only after a successful validation, the oracle only
\* after generation returned a non-empty list, the write only after the
\* oracle returned a selection; a missing, invalid or match-free number
\* reaches neither oracle nor storage; success is returned only after the
\* oracle returned a selection.
C10_StagesGated ==
    /\ calls.validate <= 1 /\ calls.product <= 1
    /\ calls.oracle <= 1 /\ calls.store <= 1
    /\ calls.product > 0 =>
          calls.validate > 0 /\ genOutcome # "raised" /\ Len(phone_number) = LocalLen
    /\ calls.oracle > 0 => genOutcome = "returned" /\ Len(candidates) > 0
    /\ calls.store > 0 =>
          /\ calls.oracle > 0
          /\ rankOutcome.kind = "returned" /\ rankOutcome.isPair
          /\ ~NoSelection(response)
    /\ (pc # "handler" /\ Len(customer_phone_number) = 0) =>
          calls.validate = 0 /\ calls.oracle = 0 /\ calls.store = 0
    /\ (genOutcome = "raised" \/ (genOutcome = "returned" /\ Len(candidates) = 0)) =>
          calls.oracle = 0 /\ calls.store = 0
    /\ (ret.returned /\ ret.vanityNumberSuccess) =>
          /\ calls.oracle > 0
          /\ rankOutcome.kind = "returned" /\ rankOutcome.isPair
          /\ ~NoSelection(response)

\* A request went through every stage once and returned success.
C10_Witness ==
    /\ ret.returned
    /\ ret.vanityNumberSuccess
    /\ calls = [validate |-> 1, product |-> 1, oracle |-> 1, store |-> 1]

====
